---- MODULE Spec2Model ----
(***************************************************************************)
(* Model of @hoajs/cloudflare-rate-limit: the two middleware constructors  *)
(* RateLimiter (src/src/utils.js) and KVRateLimiter                        *)
(* (src/src/KVRateLimiter.js), their option validation, and the request    *)
(* handling of the middleware functions they return.                       *)
(***************************************************************************)
EXTENDS Integers, Sequences, FiniteSets, TLC

VARIABLES
  strategy,   \* which constructor the application calls
  options,    \* the raw options object handed to the constructor
  ctor,       \* "idle" | "ok" | "failed": outcome of the constructor call
  ctorError,  \* the error the constructor threw (NoError when none)
  config,     \* the closure variables of the returned middleware
  pc,         \* per request: position in the middleware body
  ctx,        \* per request: the Hoa context of the request
  key,        \* per request: const key = keyGenerator(ctx)
  bind,       \* per request: the value getBinding returned
  outcome,    \* per request: the object the decision call resolved to
  pending,    \* per request: the error next() raised inside try
  log,        \* per request: the calls the middleware made, in order
  hargs,      \* per request: the argument list of the handler call
  herr,       \* per request: the error the handler call raised
  result,     \* per request: how the middleware invocation ended
  limiter,    \* per request: the options CloudflareKVRateLimiter was built with
  now,        \* Date.now(), in milliseconds
  store,      \* the KV namespace: storage key -> counter and expiry
  hist,       \* per storage key: when each decision was taken, and whether
              \* the request then reached next()
  served,     \* the number of requests that entered the middleware
  got         \* per request: what the counting primitive read from the store

vars == <<strategy, options, ctor, ctorError, config,
          pc, ctx, key, bind, outcome, pending, log, hargs, herr, result,
          limiter, now, store, hist, served, got>>

kvVars == <<now, store, hist, served, got>>

ctorVars == <<strategy, options, ctor, ctorError, config>>
reqVars == <<pc, ctx, key, bind, outcome, pending, log, hargs, herr, result, limiter>>

(***************************************************************************)
(* JavaScript values.  A string is the sequence of its characters; a       *)
(* finite number is held in tenths (Num(605) is 60.5), which covers the    *)
(* integers and one decimal digit.                                         *)
(***************************************************************************)
Undef == [t |-> "undefined"]
Null == [t |-> "null"]
False == [t |-> "boolean", b |-> FALSE]
Str(s) == [t |-> "string", s |-> s]
NaN == [t |-> "number", nan |-> TRUE]
Num(n) == [t |-> "number", nan |-> FALSE, tenths |-> n]
JsInt(k) == Num(10 * k)
Fn(f) == [t |-> "function", f |-> f]
Obj(caps) == [t |-> "object", caps |-> caps]

\* typeof v
TypeOf(v) == IF v.t = "null" THEN "object" ELSE v.t

\* !v is false
Truthy(v) ==
  CASE v.t = "undefined" -> FALSE
    [] v.t = "null" -> FALSE
    [] v.t = "boolean" -> v.b
    [] v.t = "string" -> Len(v.s) > 0
    [] v.t = "number" -> ~v.nan /\ v.tenths # 0
    [] OTHER -> TRUE

\* Number.isFinite(v) for the numbers of the model
IsFinite(v) == v.t = "number" /\ ~v.nan

DigitChars == <<"0", "1", "2", "3", "4", "5", "6", "7", "8", "9">>

RECURSIVE DigitsOf(_)
\* the decimal digits of a natural number
DigitsOf(n) ==
  IF n < 10 THEN <<DigitChars[n + 1]>>
  ELSE DigitsOf(n \div 10) \o <<DigitChars[(n % 10) + 1]>>

Abs(n) == IF n < 0 THEN -n ELSE n

\* Number::toString for a finite number held in tenths
NumberToString(n) ==
  (IF n < 0 THEN <<"-">> ELSE <<>>)
    \o DigitsOf(Abs(n) \div 10)
    \o (IF Abs(n) % 10 = 0 THEN <<>> ELSE <<".", DigitChars[(Abs(n) % 10) + 1]>>)

\* JsToString(v), the first step of parseInt and the whole of String(v)
JsToString(v) ==
  CASE v.t = "undefined" -> <<"u", "n", "d", "e", "f", "i", "n", "e", "d">>
    [] v.t = "null" -> <<"n", "u", "l", "l">>
    [] v.t = "string" -> v.s
    [] v.t = "number" -> IF v.nan THEN <<"N", "a", "N">> ELSE NumberToString(v.tenths)
    [] v.t = "boolean" -> IF v.b THEN <<"t", "r", "u", "e">> ELSE <<"f", "a", "l", "s", "e">>
    [] OTHER -> <<"[", "o", "b", "j", "e", "c", "t", "]">>

DigitValue(c) == CHOOSE d \in 0..9 : DigitChars[d + 1] = c
IsDigit(c) == \E d \in 0..9 : DigitChars[d + 1] = c

RECURSIVE SkipSpace(_)
SkipSpace(s) == IF s # <<>> /\ Head(s) = " " THEN SkipSpace(Tail(s)) ELSE s

RECURSIVE LeadingDigits(_)
\* the longest prefix of s made of decimal digits
LeadingDigits(s) ==
  IF s # <<>> /\ IsDigit(Head(s)) THEN <<Head(s)>> \o LeadingDigits(Tail(s)) ELSE <<>>

RECURSIVE DigitsValue(_, _)
DigitsValue(s, acc) ==
  IF s = <<>> THEN acc ELSE DigitsValue(Tail(s), 10 * acc + DigitValue(Head(s)))

\* parseInt(v) with no radix, for inputs without a 0x prefix: the text of v,
\* leading blanks dropped, an optional sign, then the leading decimal digits;
\* NaN when there is no digit.
parseInt(v) ==
  LET text == SkipSpace(JsToString(v))
      neg == text # <<>> /\ Head(text) = "-"
      body == IF text # <<>> /\ Head(text) \in {"-", "+"} THEN Tail(text) ELSE text
      digits == LeadingDigits(body)
  IN IF digits = <<>> THEN NaN
     ELSE JsInt((IF neg THEN -1 ELSE 1) * DigitsValue(digits, 0))

\* a < b on numbers as JavaScript compares them (false on NaN)
NumLT(a, b) == IsFinite(a) /\ IsFinite(b) /\ a.tenths < b.tenths

\* a >= k and a <= b on numbers as JavaScript compares them (false on NaN)
NumGE(a, k) == IsFinite(a) /\ a.tenths >= 10 * k
NumLE(a, b) == IsFinite(a) /\ IsFinite(b) /\ a.tenths <= b.tenths

(***************************************************************************)
(* Errors.                                                                 *)
(***************************************************************************)
NoHeaders == {}
NoError == [name |-> "none", message |-> "", status |-> 0, headers |-> NoHeaders]
TypeError(m) == [name |-> "TypeError", message |-> m, status |-> 0, headers |-> NoHeaders]
Error(m) == [name |-> "Error", message |-> m, status |-> 0, headers |-> NoHeaders]
HttpError(st, m, h) == [name |-> "HttpError", message |-> m, status |-> st, headers |-> h]

\* assert(condition, message): the error it throws, NoError when it passes
assert(condition, message) == IF condition THEN NoError ELSE TypeError(message)

RECURSIVE FirstError(_)
\* statements run in order; the first throw ends the function
FirstError(errs) ==
  IF errs = <<>> THEN NoError
  ELSE IF Head(errs) # NoError THEN Head(errs) ELSE FirstError(Tail(errs))

(***************************************************************************)
(* The constructors.                                                       *)
(***************************************************************************)
MsgBinding == "options.binding must be a string or a function"
MsgPrefix == "options.prefix must be a non-empty string"
MsgLimit == "options.limit must be >= 1"
MsgPeriod == "options.period must be >= 60 seconds (Cloudflare KV TTL minimum)"
MsgInterval == "options.interval must be >= 0"
MsgIntervalPeriod == "options.interval must be <= options.period"
MsgKeyGenerator == "options.keyGenerator must be a function"
MsgSuccessHandler == "options.successHandler must be a function"
MsgErrorHandler == "options.errorHandler must be a function"
MsgRLUsage == "options.binding must be a Rate Limiter binding name or return a Cloudflare Rate Limiter binding exposing limit()"
MsgKVUsage == "options.binding must be a KV namespace name or return a Cloudflare KV namespace exposing get() and put()"

\* a destructuring default: it applies to undefined only
Default(v, d) == IF v = Undef THEN d ELSE v

DefaultPrefix == Str(<<"r", "a", "t", "e", "l", "i", "m", "i", "t", ":">>)

NoConfig ==
  [binding |-> Undef, prefix |-> Undef, limit |-> Undef, period |-> Undef,
   interval |-> Undef, keyGenerator |-> Undef, successHandler |-> Undef,
   errorHandler |-> Undef]

\* the destructuring of RateLimiter: the closure variables of rateLimiter
RLClosure(o) ==
  [binding |-> o.binding, prefix |-> Undef, limit |-> Undef, period |-> Undef,
   interval |-> Undef, keyGenerator |-> o.keyGenerator,
   successHandler |-> Default(o.successHandler, Fn("RL.defaultSuccessHandler")),
   errorHandler |-> Default(o.errorHandler, Fn("RL.defaultErrorHandler"))]

\* the asserts of RateLimiter without the one on binding
RLAssertsNoBinding(c) ==
  <<assert(TypeOf(c.keyGenerator) = "function", MsgKeyGenerator),
    assert(TypeOf(c.successHandler) = "function", MsgSuccessHandler),
    assert(TypeOf(c.errorHandler) = "function", MsgErrorHandler)>>

\* the four asserts of RateLimiter, in statement order
RLAsserts(c) ==
  <<assert(TypeOf(c.binding) = "string" \/ TypeOf(c.binding) = "function", MsgBinding),
    assert(TypeOf(c.keyGenerator) = "function", MsgKeyGenerator),
    assert(TypeOf(c.successHandler) = "function", MsgSuccessHandler),
    assert(TypeOf(c.errorHandler) = "function", MsgErrorHandler)>>

\* RateLimiter(options): the error thrown (NoError when it returns) and the
\* closure of the middleware it returns
RateLimiter(o) ==
  LET c == RLClosure(o)
      e == FirstError(RLAsserts(c))
  IN [error |-> e, mw |-> IF e = NoError THEN c ELSE NoConfig]

\* the destructuring of KVRateLimiter followed by the three parseInt calls
KVClosure(o) ==
  [binding |-> o.binding,
   prefix |-> Default(o.prefix, DefaultPrefix),
   limit |-> parseInt(o.limit),
   period |-> parseInt(o.period),
   interval |-> parseInt(Default(o.interval, JsInt(0))),
   keyGenerator |-> o.keyGenerator,
   successHandler |-> Default(o.successHandler, Fn("KV.defaultSuccessHandler")),
   errorHandler |-> Default(o.errorHandler, Fn("KV.defaultErrorHandler"))]

\* the asserts of KVRateLimiter with interval < period in place of <=
KVAssertsStrictInterval(c) ==
  <<assert(TypeOf(c.binding) = "string" \/ TypeOf(c.binding) = "function", MsgBinding),
    assert(TypeOf(c.prefix) = "string" /\ Len(c.prefix.s) > 0, MsgPrefix),
    assert(IsFinite(c.limit) /\ NumGE(c.limit, 1), MsgLimit),
    assert(IsFinite(c.period) /\ NumGE(c.period, 60), MsgPeriod),
    assert(IsFinite(c.interval) /\ NumGE(c.interval, 0), MsgInterval),
    assert(NumLT(c.interval, c.period), MsgIntervalPeriod),
    assert(TypeOf(c.keyGenerator) = "function", MsgKeyGenerator),
    assert(TypeOf(c.successHandler) = "function", MsgSuccessHandler),
    assert(TypeOf(c.errorHandler) = "function", MsgErrorHandler)>>

\* the asserts of KVRateLimiter with the three function checks moved up
KVAssertsFunctionsFirst(c) ==
  <<assert(TypeOf(c.binding) = "string" \/ TypeOf(c.binding) = "function", MsgBinding),
    assert(TypeOf(c.keyGenerator) = "function", MsgKeyGenerator),
    assert(TypeOf(c.successHandler) = "function", MsgSuccessHandler),
    assert(TypeOf(c.errorHandler) = "function", MsgErrorHandler),
    assert(TypeOf(c.prefix) = "string" /\ Len(c.prefix.s) > 0, MsgPrefix),
    assert(IsFinite(c.limit) /\ NumGE(c.limit, 1), MsgLimit),
    assert(IsFinite(c.period) /\ NumGE(c.period, 60), MsgPeriod),
    assert(IsFinite(c.interval) /\ NumGE(c.interval, 0), MsgInterval),
    assert(NumLE(c.interval, c.period), MsgIntervalPeriod)>>

\* the nine asserts of KVRateLimiter, in statement order
KVAsserts(c) ==
  <<assert(TypeOf(c.binding) = "string" \/ TypeOf(c.binding) = "function", MsgBinding),
    assert(TypeOf(c.prefix) = "string" /\ Len(c.prefix.s) > 0, MsgPrefix),
    assert(IsFinite(c.limit) /\ NumGE(c.limit, 1), MsgLimit),
    assert(IsFinite(c.period) /\ NumGE(c.period, 60), MsgPeriod),
    assert(IsFinite(c.interval) /\ NumGE(c.interval, 0), MsgInterval),
    assert(NumLE(c.interval, c.period), MsgIntervalPeriod),
    assert(TypeOf(c.keyGenerator) = "function", MsgKeyGenerator),
    assert(TypeOf(c.successHandler) = "function", MsgSuccessHandler),
    assert(TypeOf(c.errorHandler) = "function", MsgErrorHandler)>>

\* KVRateLimiter(options)
KVRateLimiter(o) ==
  LET c == KVClosure(o)
      e == FirstError(KVAsserts(c))
  IN [error |-> e, mw |-> IF e = NoError THEN c ELSE NoConfig]

(***************************************************************************)
(* Requests.                                                               *)
(***************************************************************************)
\* the invocations of the middleware that a behaviour holds: one at a time,
\* or two in flight on the same middleware instance
OneRequest == {"r1"}
TwoRequests == {"r1", "r2"}

Requests == DOMAIN pc

KVName == <<"K", "V">>
EmptyName == <<>>

\* binding objects: the methods they expose
FullBinding == Obj({"limit", "get", "put"})
GetOnly == Obj({"get"})
PutOnly == Obj({"put"})

\* what an async factory returns: a promise, which has then() and none of the
\* methods of the binding it resolves to
Promise(v) == [t |-> "object", caps |-> {"then"}, resolves |-> v]

\* ctx.env of a request: a mapping from binding names to bindings
Envs == {<<>>, KVName :> FullBinding, KVName :> GetOnly, EmptyName :> FullBinding}

\* a Hoa context: its id, ctx.env, whether the host's ctx.throw throws (Hoa's
\* does, the mocks of __test__ record and return), the headers ctx.res.set
\* received and the last ctx.throw call
Contexts(r) ==
  {[id |-> r, env |-> e, throws |-> t, headers |-> NoHeaders, thrown |-> NoError] :
     e \in Envs, t \in BOOLEAN}

NoContext == [id |-> "none", env |-> <<>>, throws |-> FALSE, headers |-> NoHeaders,
              thrown |-> NoError]

\* what a keyGenerator can return
Keys == {Str(<<>>), Null, Undef, False, Str(<<"i", "p">>), Str(<<"u">>)}

\* ctx.env[name]
EnvLookup(c, name) == IF name \in DOMAIN c.env THEN c.env[name] ELSE Undef

\* binding(ctx) for the factories of the model
CallFactory(f, c) ==
  CASE f = "makeStore" -> FullBinding
    [] f = "makeNull" -> Null
    [] f = "makePartial" -> PutOnly
    [] f = "makeAsync" -> Promise(FullBinding)
    [] OTHER -> EnvLookup(c, KVName)

\* getBinding with a fixed name looked up whatever the configured binding is
getBindingFixedName(c, binding) == EnvLookup(c, KVName)

\* getBinding with the factory's promise awaited
getBindingAwaited(c, binding) ==
  LET b == IF TypeOf(binding) = "string" THEN EnvLookup(c, binding.s)
           ELSE CallFactory(binding.f, c)
  IN IF "resolves" \in DOMAIN b THEN b.resolves ELSE b

\* getBinding(ctx, binding)
getBinding(c, binding) ==
  IF TypeOf(binding) = "string" THEN EnvLookup(c, binding.s) ELSE CallFactory(binding.f, c)

\* typeof v.m === 'function'
HasMethod(v, m) == v.t = "object" /\ m \in v.caps

\* the condition of the assert after getBinding in rateLimiter
RLUsable(b) == Truthy(b) /\ HasMethod(b, "limit")

\* the assert without the test of put
KVUsableGetOnly(b) == Truthy(b) /\ HasMethod(b, "get")

\* the condition of the assert after getBinding in kvRateLimiter
KVUsable(b) == Truthy(b) /\ HasMethod(b, "get") /\ HasMethod(b, "put")

\* made: whether the decision call has resolved
NoOutcome == [made |-> FALSE, success |-> FALSE, remaining |-> Undef, reset |-> Undef]
NoResult == [kind |-> "none", error |-> NoError]
Returned == [kind |-> "returned", error |-> NoError]
Raised(e) == [kind |-> "raised", error |-> e]

Boom == Error("boom")
HandlerFailure == Error("handler failed")
DecisionFailure == Error("decision failed")

\* how await next() can end: it returns, or it raises
NextOutcomes == {NoError, Boom}

\* Math.ceil(a / b) for b > 0
CeilDiv(a, b) == (a + b - 1) \div b

\* ctx.throw(status, message, { headers }): the context afterwards and the
\* error raised, if the host's ctx.throw raises
ctxThrow(c, status, message, headers) ==
  [ctx |-> [c EXCEPT !.thrown = HttpError(status, message, headers)],
   error |-> IF c.throws THEN HttpError(status, message, headers) ELSE NoError]

\* the header without the reset added: String(Math.ceil(Date.now() / 1000))
ResetHeaderNow(reset) == JsToString(JsInt(CeilDiv(now, 1000)))

\* String(Math.ceil(Date.now() / 1000 + reset))
ResetHeader(reset) ==
  JsToString(JsInt(CeilDiv(now + 100 * reset.tenths, 1000)))

\* the three headers both default handlers of KVRateLimiter.js build
RateLimitHeaders(limit, remaining, reset) ==
  {<<"X-RateLimit-Limit", JsToString(limit)>>,
   <<"X-RateLimit-Remaining", JsToString(remaining)>>,
   <<"X-RateLimit-Reset", ResetHeader(reset)>>}

\* defaultSuccessHandler of utils.js: no-op
RLdefaultSuccessHandler(c) == [ctx |-> c, error |-> NoError]

\* the handler with a Retry-After header added
RLdefaultErrorHandlerRetryAfter(c) ==
  ctxThrow(c, 429, "Too Many Requests", {<<"Retry-After", <<"6", "0">>>>})

\* defaultErrorHandler of utils.js
RLdefaultErrorHandler(c) == ctxThrow(c, 429, "Too Many Requests", NoHeaders)

\* defaultSuccessHandler of KVRateLimiter.js
KVdefaultSuccessHandler(c, limit, remaining, reset) ==
  [ctx |-> [c EXCEPT !.headers = RateLimitHeaders(limit, remaining, reset)],
   error |-> NoError]

\* defaultErrorHandler of KVRateLimiter.js
KVdefaultErrorHandler(c, limit, remaining, reset) ==
  ctxThrow(c, 429, "Too Many Requests",
           RateLimitHeaders(limit, remaining, reset)
             \cup {<<"Retry-After", JsToString(reset)>>})

\* a handler supplied by the application: it returns or it raises
CustomHandler(c) == {[ctx |-> c, error |-> e] : e \in {NoError, HandlerFailure}}

\* the argument list of errorHandler(ctx) and successHandler(ctx) in
\* rateLimiter; a context stands in the list by its id
RLHandlerArgs(c) == <<c.id>>

\* the argument list with remaining and reset in each other's place
KVHandlerArgsSwapped(c, o) == <<c.id, config.limit, o.reset, o.remaining>>

\* the argument list with the decision read from a variable that every
\* invocation writes: the decision of another request when there is one
KVHandlerArgsShared(c, o) ==
  LET others == {q \in DOMAIN outcome : q # c.id /\ outcome[q].made}
      last == IF others = {} THEN o ELSE outcome[CHOOSE q \in others : TRUE]
  IN <<c.id, config.limit, last.remaining, last.reset>>

\* the argument list of errorHandler(ctx, limit, remaining, reset) and
\* successHandler(ctx, limit, remaining, reset) in kvRateLimiter, from the
\* context and the destructured decision
KVHandlerArgs(c, o) == <<c.id, config.limit, o.remaining, o.reset>>

\* await successHandler(ctx) in rateLimiter: the ways the call can end
RLCallSuccessHandler(c) ==
  IF config.successHandler.f = "RL.defaultSuccessHandler"
  THEN {RLdefaultSuccessHandler(c)} ELSE CustomHandler(c)

\* await errorHandler(ctx) in rateLimiter
RLCallErrorHandler(c) ==
  IF config.errorHandler.f = "RL.defaultErrorHandler"
  THEN {RLdefaultErrorHandler(c)} ELSE CustomHandler(c)

\* await successHandler(ctx, limit, remaining, reset) in kvRateLimiter
KVCallSuccessHandler(c, limit, remaining, reset) ==
  IF config.successHandler.f = "KV.defaultSuccessHandler"
  THEN {KVdefaultSuccessHandler(c, limit, remaining, reset)} ELSE CustomHandler(c)

\* await errorHandler(ctx, limit, remaining, reset) in kvRateLimiter
KVCallErrorHandler(c, limit, remaining, reset) ==
  IF config.errorHandler.f = "KV.defaultErrorHandler"
  THEN {KVdefaultErrorHandler(c, limit, remaining, reset)} ELSE CustomHandler(c)

\* try { await next() } finally { await successHandler(ctx) } of rateLimiter:
\* the completion of the statement, from the error of the try block and that
\* of the handler
RLTryFinally(tryError, finallyError) ==
  IF finallyError # NoError THEN Raised(finallyError)
  ELSE IF tryError # NoError THEN Raised(tryError)
  ELSE Returned

\* the same statement of kvRateLimiter
KVTryFinally(tryError, finallyError) ==
  IF finallyError # NoError THEN Raised(finallyError)
  ELSE IF tryError # NoError THEN Raised(tryError)
  ELSE Returned

\* the handler's error swallowed
RLRejectionSwallowed(handlerError) == Returned

\* await errorHandler(ctx); return of rateLimiter: the completion of the
\* middleware, from the error of the handler call
RLRejection(handlerError) ==
  IF handlerError = NoError THEN Returned ELSE Raised(handlerError)

\* await errorHandler(ctx, limit, remaining, reset); return of kvRateLimiter
KVRejection(handlerError) ==
  IF handlerError = NoError THEN Returned ELSE Raised(handlerError)

\* try { ... } finally { ... } of rateLimiter: where the middleware goes when
\* the try block completes with error e (NoError: normally)
RLAfterTryNoFinally(e) == IF e = NoError THEN "finally" ELSE "done"

RLAfterTry(e) == "finally"

\* the handler call placed after the try statement instead of in finally
KVAfterTryNoFinally(e) == IF e = NoError THEN "finally" ELSE "done"

\* try { ... } finally { ... } of kvRateLimiter
KVAfterTry(e) == "finally"

\* the middleware going on to the finally block without waiting for next()
KVAwaitNextDeadline == "finally"

\* await next() inside try of kvRateLimiter: where the middleware stays once
\* it has called next, until the promise next returned settles
KVAwaitNext == "nextAwait"

\* the binding resolved before the key is derived
FirstStepGetBinding == "getBinding"

\* the first statement of rateLimiter and of kvRateLimiter:
\* const key = keyGenerator(ctx)
FirstStep == "keyGenerator"

\* the test narrowed to nullish keys in rateLimiter: if (key == null)
RLAfterKeyNullish(k) == IF k.t \in {"undefined", "null"} THEN "skip" ELSE "getBinding"

\* if (!key) of rateLimiter: where the middleware goes after keyGenerator
RLAfterKey(k) == IF ~Truthy(k) THEN "skip" ELSE "getBinding"

\* the test narrowed to nullish keys: if (key == null)
KVAfterKeyNullish(k) == IF k.t \in {"undefined", "null"} THEN "skip" ELSE "getBinding"

\* if (!key) of kvRateLimiter
KVAfterKey(k) == IF ~Truthy(k) THEN "skip" ELSE "getBinding"

\* the test inverted: if (success)
RLAfterDecisionInverted(o) == IF o.success THEN "errorHandler" ELSE "next"

\* if (!success) of rateLimiter: where the middleware goes after the decision
RLAfterDecision(o) == IF ~o.success THEN "errorHandler" ELSE "next"

\* the test inverted in kvRateLimiter: if (success)
KVAfterDecisionInverted(o) == IF o.success THEN "errorHandler" ELSE "next"

\* if (!success) of kvRateLimiter
KVAfterDecisionAlwaysNext(o) == "next"

KVAfterDecision(o) == IF ~o.success THEN "errorHandler" ELSE "next"

\* await rateLimiterBinding.limit({ key }) throws error e: no try encloses
\* it, so e leaves rateLimiter
RLDecisionRaised(e) == [pc |-> "done", result |-> Raised(e)]

\* the error caught and the request let through
KVDecisionRaisedFailOpen(e) == [pc |-> "next", result |-> NoResult]

\* await ratelimiter(key) throws error e: it leaves kvRateLimiter
KVDecisionRaised(e) == [pc |-> "done", result |-> Raised(e)]

\* the decisions binding.limit({ key }) can resolve to
RLOutcomes ==
  {[made |-> TRUE, success |-> b, remaining |-> Undef, reset |-> Undef] : b \in BOOLEAN}

\* the decisions ratelimiter(key) can resolve to when the counting primitive
\* is taken as a black box
KVOutcomes ==
  {[made |-> TRUE, success |-> b, remaining |-> JsInt(m), reset |-> JsInt(t)] :
     b \in BOOLEAN, m \in {0, 1}, t \in {5}}

\* the call with limit and period in each other's place
LimiterOptionsSwapped(b) ==
  [store |-> b, prefix |-> config.prefix, limit |-> config.period,
   period |-> config.limit, interval |-> config.interval]

\* the primitive built from the options as the caller gave them
LimiterOptionsRaw(b) ==
  [store |-> b, prefix |-> options.prefix, limit |-> options.limit,
   period |-> options.period, interval |-> options.interval]

\* CloudflareKVRateLimiter({ store: kvBinding, prefix, limit, period, interval })
LimiterOptions(b) ==
  [store |-> b, prefix |-> config.prefix, limit |-> config.limit,
   period |-> config.period, interval |-> config.interval]

(***************************************************************************)
(* The counting primitive behind ratelimiter(key).  Its code is the        *)
(* package cloudflare-kv-rate-limit that KVRateLimiter.js imports; it is   *)
(* modelled from section 4.5 of the specification, for interval = 0: a     *)
(* counter per composite key whose time-to-live is period seconds, created *)
(* at 1 and incremented until it expires.                                  *)
(***************************************************************************)
\* the composite storage key: the configured prefix followed by the key
StorageKey(l, k) == l.prefix.s \o k.s

\* the entry of the store under sk that has not expired at time t, if any
Live(sk, t) == sk \in DOMAIN store /\ t < store[sk].expires

\* the entry after one more request at time t
Incremented(l, sk, t) ==
  IF Live(sk, t)
  THEN [value |-> store[sk].value + 1, expires |-> store[sk].expires]
  ELSE [value |-> 1, expires |-> t + 1000 * (l.period.tenths \div 10)]

\* the decision for a counter that stands at e.value after incrementing
Decision(l, e, t) ==
  LET limit == l.limit.tenths \div 10
  IN [made |-> TRUE,
      success |-> e.value <= limit,
      remaining |-> IF e.value <= limit THEN JsInt(limit - e.value) ELSE JsInt(0),
      reset |-> JsInt(CeilDiv(e.expires - t, 1000))]

\* f with x mapped to v
Put(f, x, v) == [y \in DOMAIN f \cup {x} |-> IF y = x THEN v ELSE f[y]]

\* what the primitive holds between its read of the store and its write: the
\* entry it found, whether another request was between its own read and
\* write of the same key at that time, and, once written, the place of the
\* decision in the history of the key
NoRead == [found |-> FALSE, value |-> 0, expires |-> 0, raced |-> FALSE, idx |-> 0]

NoLimiter ==
  [store |-> Undef, prefix |-> Undef, limit |-> Undef, period |-> Undef,
   interval |-> Undef]

(***************************************************************************)
(* Actions: construction.                                                  *)
(***************************************************************************)
Construct(made) ==
  /\ ctor = "idle"
  /\ ctorError' = made.error
  /\ ctor' = IF made.error = NoError THEN "ok" ELSE "failed"
  /\ config' = made.mw
  /\ UNCHANGED <<strategy, options, reqVars, kvVars>>

\* the application calls RateLimiter(options)
ConstructRateLimiter == strategy = "RateLimiter" /\ Construct(RateLimiter(options))

\* the application calls KVRateLimiter(options)
ConstructKVRateLimiter == strategy = "KVRateLimiter" /\ Construct(KVRateLimiter(options))

(***************************************************************************)
(* Actions: one request through the middleware.  Every await, and every    *)
(* call into code the middleware does not own, is a step.                  *)
(***************************************************************************)
\* the host calls the middleware with (ctx, next): a fresh activation
Activate(r) ==
  /\ ctor = "ok"
  /\ pc[r] \in {"idle", "done"}
  /\ \E c \in Contexts(r) : ctx' = [ctx EXCEPT ![r] = c]
  /\ pc' = [pc EXCEPT ![r] = FirstStep]
  /\ key' = [key EXCEPT ![r] = Undef]
  /\ bind' = [bind EXCEPT ![r] = Undef]
  /\ outcome' = [outcome EXCEPT ![r] = NoOutcome]
  /\ pending' = [pending EXCEPT ![r] = NoError]
  /\ log' = [log EXCEPT ![r] = <<>>]
  /\ hargs' = [hargs EXCEPT ![r] = <<>>]
  /\ herr' = [herr EXCEPT ![r] = NoError]
  /\ result' = [result EXCEPT ![r] = NoResult]
  /\ limiter' = [limiter EXCEPT ![r] = NoLimiter]
  /\ UNCHANGED ctorVars

Enter(r) == Activate(r) /\ UNCHANGED kvVars

RLEnter(r) == strategy = "RateLimiter" /\ Enter(r)

KVEnter(r) == strategy = "KVRateLimiter" /\ Enter(r)

\* const key = keyGenerator(ctx) and the test of the key, in rateLimiter
RLKeyGenerator(r) ==
  /\ strategy = "RateLimiter"
  /\ pc[r] = "keyGenerator"
  /\ \E k \in Keys :
       /\ key' = [key EXCEPT ![r] = k]
       /\ pc' = [pc EXCEPT ![r] = RLAfterKey(k)]
  /\ log' = [log EXCEPT ![r] = Append(@, "keyGenerator")]
  /\ UNCHANGED <<ctorVars, ctx, bind, outcome, pending, hargs, herr, result, limiter, kvVars>>

\* the same two statements of kvRateLimiter
KVKeyGenerator(r) ==
  /\ strategy = "KVRateLimiter"
  /\ pc[r] = "keyGenerator"
  /\ \E k \in Keys :
       /\ key' = [key EXCEPT ![r] = k]
       /\ pc' = [pc EXCEPT ![r] = KVAfterKey(k)]
  /\ log' = [log EXCEPT ![r] = Append(@, "keyGenerator")]
  /\ UNCHANGED <<ctorVars, ctx, bind, outcome, pending, hargs, herr, result, limiter, kvVars>>

\* if (!key) { await next() ... : next is called, in rateLimiter
RLSkip(r) ==
  /\ strategy = "RateLimiter"
  /\ pc[r] = "skip"
  /\ log' = [log EXCEPT ![r] = Append(@, "next")]
  /\ pc' = [pc EXCEPT ![r] = "skipAwait"]
  /\ UNCHANGED <<ctorVars, ctx, key, bind, outcome, pending, hargs, herr, result, limiter, kvVars>>

\* the await of that call ends: next returned, or it raised and the error
\* leaves rateLimiter
RLSkipSettles(r) ==
  /\ strategy = "RateLimiter"
  /\ pc[r] = "skipAwait"
  /\ \E e \in NextOutcomes :
       result' = [result EXCEPT ![r] = IF e = NoError THEN Returned ELSE Raised(e)]
  /\ log' = [log EXCEPT ![r] = Append(@, "nextSettled")]
  /\ pc' = [pc EXCEPT ![r] = "done"]
  /\ UNCHANGED <<ctorVars, ctx, key, bind, outcome, pending, hargs, herr, limiter, kvVars>>

\* the same in kvRateLimiter
KVSkip(r) ==
  /\ strategy = "KVRateLimiter"
  /\ pc[r] = "skip"
  /\ log' = [log EXCEPT ![r] = Append(@, "next")]
  /\ pc' = [pc EXCEPT ![r] = "skipAwait"]
  /\ UNCHANGED <<ctorVars, ctx, key, bind, outcome, pending, hargs, herr, result, limiter, kvVars>>

\* the await of that call ends: next returned, or it raised and the error
\* leaves kvRateLimiter
KVSkipSettles(r) ==
  /\ strategy = "KVRateLimiter"
  /\ pc[r] = "skipAwait"
  /\ \E e \in NextOutcomes :
       result' = [result EXCEPT ![r] = IF e = NoError THEN Returned ELSE Raised(e)]
  /\ log' = [log EXCEPT ![r] = Append(@, "nextSettled")]
  /\ pc' = [pc EXCEPT ![r] = "done"]
  /\ UNCHANGED <<ctorVars, ctx, key, bind, outcome, pending, hargs, herr, limiter, kvVars>>

\* const rateLimiterBinding = getBinding(ctx, binding) and the assert on it
RLGetBinding(r) ==
  /\ strategy = "RateLimiter"
  /\ pc[r] = "getBinding"
  /\ LET b == getBinding(ctx[r], config.binding)
         e == assert(RLUsable(b), MsgRLUsage)
     IN /\ bind' = [bind EXCEPT ![r] = b]
        /\ pc' = [pc EXCEPT ![r] = IF e = NoError THEN "decide" ELSE "done"]
        /\ result' = [result EXCEPT ![r] = IF e = NoError THEN @ ELSE Raised(e)]
  /\ log' = [log EXCEPT ![r] = Append(@, "getBinding")]
  /\ UNCHANGED <<ctorVars, ctx, key, outcome, pending, hargs, herr, limiter, kvVars>>

\* const kvBinding = getBinding(ctx, binding), the assert on it, and the
\* construction of the counting primitive
KVGetBinding(r) ==
  /\ strategy = "KVRateLimiter"
  /\ pc[r] = "getBinding"
  /\ LET b == getBinding(ctx[r], config.binding)
         e == assert(KVUsable(b), MsgKVUsage)
     IN /\ bind' = [bind EXCEPT ![r] = b]
        /\ pc' = [pc EXCEPT ![r] = IF e = NoError THEN "decide" ELSE "done"]
        /\ result' = [result EXCEPT ![r] = IF e = NoError THEN @ ELSE Raised(e)]
        /\ limiter' = [limiter EXCEPT ![r] = IF e = NoError THEN LimiterOptions(b) ELSE @]
  /\ log' = [log EXCEPT ![r] = Append(@, "getBinding")]
  /\ UNCHANGED <<ctorVars, ctx, key, outcome, pending, hargs, herr, kvVars>>

\* const { success } = await rateLimiterBinding.limit({ key }): it resolves
RLLimit(r) ==
  /\ strategy = "RateLimiter"
  /\ pc[r] = "decide"
  /\ \E o \in RLOutcomes :
       /\ outcome' = [outcome EXCEPT ![r] = o]
       /\ pc' = [pc EXCEPT ![r] = RLAfterDecision(o)]
  /\ log' = [log EXCEPT ![r] = Append(@, "decide")]
  /\ UNCHANGED <<ctorVars, ctx, key, bind, pending, hargs, herr, result, limiter, kvVars>>

\* ... or it rejects: the await throws out of rateLimiter
RLLimitRaises(r) ==
  /\ strategy = "RateLimiter"
  /\ pc[r] = "decide"
  /\ result' = [result EXCEPT ![r] = RLDecisionRaised(DecisionFailure).result]
  /\ pc' = [pc EXCEPT ![r] = RLDecisionRaised(DecisionFailure).pc]
  /\ log' = [log EXCEPT ![r] = Append(@, "decide")]
  /\ UNCHANGED <<ctorVars, ctx, key, bind, outcome, pending, hargs, herr, limiter, kvVars>>

\* const { success, remaining, reset } = await ratelimiter(key): it resolves
KVLimit(r) ==
  /\ strategy = "KVRateLimiter"
  /\ pc[r] = "decide"
  /\ \E o \in KVOutcomes :
       /\ outcome' = [outcome EXCEPT ![r] = o]
       /\ pc' = [pc EXCEPT ![r] = KVAfterDecision(o)]
  /\ log' = [log EXCEPT ![r] = Append(@, "decide")]
  /\ UNCHANGED <<ctorVars, ctx, key, bind, pending, hargs, herr, result, limiter, kvVars>>

\* ... or it rejects
KVLimitRaises(r) ==
  /\ strategy = "KVRateLimiter"
  /\ pc[r] = "decide"
  /\ result' = [result EXCEPT ![r] = KVDecisionRaised(DecisionFailure).result]
  /\ pc' = [pc EXCEPT ![r] = KVDecisionRaised(DecisionFailure).pc]
  /\ log' = [log EXCEPT ![r] = Append(@, "decide")]
  /\ UNCHANGED <<ctorVars, ctx, key, bind, outcome, pending, hargs, herr, limiter, kvVars>>

\* if (!success) { await errorHandler(ctx); return } in rateLimiter
RLErrorHandler(r) ==
  /\ strategy = "RateLimiter"
  /\ pc[r] = "errorHandler"
  /\ \E h \in RLCallErrorHandler(ctx[r]) :
       /\ ctx' = [ctx EXCEPT ![r] = h.ctx]
       /\ herr' = [herr EXCEPT ![r] = h.error]
       /\ result' = [result EXCEPT ![r] = RLRejection(h.error)]
  /\ hargs' = [hargs EXCEPT ![r] = RLHandlerArgs(ctx[r])]
  /\ log' = [log EXCEPT ![r] = Append(@, "errorHandler")]
  /\ pc' = [pc EXCEPT ![r] = "done"]
  /\ UNCHANGED <<ctorVars, key, bind, outcome, pending, limiter, kvVars>>

\* if (!success) { await errorHandler(ctx, limit, remaining, reset); return }
KVErrorHandler(r) ==
  /\ strategy = "KVRateLimiter"
  /\ pc[r] = "errorHandler"
  /\ \E h \in KVCallErrorHandler(ctx[r], KVHandlerArgs(ctx[r], outcome[r])[2],
                                  KVHandlerArgs(ctx[r], outcome[r])[3],
                                  KVHandlerArgs(ctx[r], outcome[r])[4]) :
       /\ ctx' = [ctx EXCEPT ![r] = h.ctx]
       /\ herr' = [herr EXCEPT ![r] = h.error]
       /\ result' = [result EXCEPT ![r] = KVRejection(h.error)]
  /\ hargs' = [hargs EXCEPT ![r] = KVHandlerArgs(ctx[r], outcome[r])]
  /\ log' = [log EXCEPT ![r] = Append(@, "errorHandler")]
  /\ pc' = [pc EXCEPT ![r] = "done"]
  /\ UNCHANGED <<ctorVars, key, bind, outcome, pending, limiter, kvVars>>

\* try { await next() } in rateLimiter: next is called
RLNext(r) ==
  /\ strategy = "RateLimiter"
  /\ pc[r] = "next"
  /\ log' = [log EXCEPT ![r] = Append(@, "next")]
  /\ pc' = [pc EXCEPT ![r] = "nextAwait"]
  /\ UNCHANGED <<ctorVars, ctx, key, bind, outcome, pending, hargs, herr, result, limiter, kvVars>>

\* the await inside try ends: next returned, or it raised
RLNextSettles(r) ==
  /\ strategy = "RateLimiter"
  /\ pc[r] = "nextAwait"
  /\ \E e \in NextOutcomes :
       /\ pending' = [pending EXCEPT ![r] = e]
       /\ pc' = [pc EXCEPT ![r] = RLAfterTry(e)]
       /\ result' = [result EXCEPT ![r] = IF RLAfterTry(e) = "done" THEN Raised(e) ELSE @]
  /\ log' = [log EXCEPT ![r] = Append(@, "nextSettled")]
  /\ UNCHANGED <<ctorVars, ctx, key, bind, outcome, hargs, herr, limiter, kvVars>>

\* try { await next() } in kvRateLimiter: next is called
KVNext(r) ==
  /\ strategy = "KVRateLimiter"
  /\ pc[r] = "next"
  /\ log' = [log EXCEPT ![r] = Append(@, "next")]
  /\ pc' = [pc EXCEPT ![r] = KVAwaitNext]
  /\ UNCHANGED <<ctorVars, ctx, key, bind, outcome, pending, hargs, herr, result, limiter, kvVars>>

\* the await inside try ends: next returned, or it raised
KVNextSettles(r) ==
  /\ strategy = "KVRateLimiter"
  /\ pc[r] = "nextAwait"
  /\ \E e \in NextOutcomes :
       /\ pending' = [pending EXCEPT ![r] = e]
       /\ pc' = [pc EXCEPT ![r] = KVAfterTry(e)]
       /\ result' = [result EXCEPT ![r] = IF KVAfterTry(e) = "done" THEN Raised(e) ELSE @]
  /\ log' = [log EXCEPT ![r] = Append(@, "nextSettled")]
  /\ UNCHANGED <<ctorVars, ctx, key, bind, outcome, hargs, herr, limiter, kvVars>>

\* finally { await successHandler(ctx) } in rateLimiter
RLSuccessHandler(r) ==
  /\ strategy = "RateLimiter"
  /\ pc[r] = "finally"
  /\ \E h \in RLCallSuccessHandler(ctx[r]) :
       /\ ctx' = [ctx EXCEPT ![r] = h.ctx]
       /\ herr' = [herr EXCEPT ![r] = h.error]
       /\ result' = [result EXCEPT ![r] = RLTryFinally(pending[r], h.error)]
  /\ hargs' = [hargs EXCEPT ![r] = RLHandlerArgs(ctx[r])]
  /\ log' = [log EXCEPT ![r] = Append(@, "successHandler")]
  /\ pc' = [pc EXCEPT ![r] = "done"]
  /\ UNCHANGED <<ctorVars, key, bind, outcome, pending, limiter, kvVars>>

\* finally { await successHandler(ctx, limit, remaining, reset) }
KVSuccessHandler(r) ==
  /\ strategy = "KVRateLimiter"
  /\ pc[r] = "finally"
  /\ \E h \in KVCallSuccessHandler(ctx[r], KVHandlerArgs(ctx[r], outcome[r])[2],
                                    KVHandlerArgs(ctx[r], outcome[r])[3],
                                    KVHandlerArgs(ctx[r], outcome[r])[4]) :
       /\ ctx' = [ctx EXCEPT ![r] = h.ctx]
       /\ herr' = [herr EXCEPT ![r] = h.error]
       /\ result' = [result EXCEPT ![r] = KVTryFinally(pending[r], h.error)]
  /\ hargs' = [hargs EXCEPT ![r] = KVHandlerArgs(ctx[r], outcome[r])]
  /\ log' = [log EXCEPT ![r] = Append(@, "successHandler")]
  /\ pc' = [pc EXCEPT ![r] = "done"]
  /\ UNCHANGED <<ctorVars, key, bind, outcome, pending, limiter, kvVars>>

\* the body of the middleware RateLimiter returns
rateLimiter(r) ==
  \/ RLEnter(r)
  \/ RLKeyGenerator(r)
  \/ RLSkip(r)
  \/ RLSkipSettles(r)
  \/ RLGetBinding(r)
  \/ RLLimit(r)
  \/ RLLimitRaises(r)
  \/ RLErrorHandler(r)
  \/ RLNext(r)
  \/ RLNextSettles(r)
  \/ RLSuccessHandler(r)

\* the body of the middleware KVRateLimiter returns
kvRateLimiter(r) ==
  \/ KVEnter(r)
  \/ KVKeyGenerator(r)
  \/ KVSkip(r)
  \/ KVSkipSettles(r)
  \/ KVGetBinding(r)
  \/ KVLimit(r)
  \/ KVLimitRaises(r)
  \/ KVErrorHandler(r)
  \/ KVNext(r)
  \/ KVNextSettles(r)
  \/ KVSuccessHandler(r)

StartMs == 1500

\* the requests one behaviour of the counting specification serves
MaxRequests == 3

\* the requests one behaviour of the racing specification serves
MaxRaceRequests == 2

\* the step of the clock, in milliseconds, and the number of steps
TickMs == 30000
MaxTicks == 3

(***************************************************************************)
(* The window-counter middleware run against the counting primitive and a  *)
(* store that keeps its entries between requests.                          *)
(***************************************************************************)
\* a request enters; the requests are served one after the other
KVEnterCounted(r) ==
  /\ strategy = "KVRateLimiter"
  /\ served < MaxRequests
  /\ Activate(r)
  /\ served' = served + 1
  /\ UNCHANGED <<now, store, hist, got>>

\* const { success, remaining, reset } = await ratelimiter(key), with the
\* primitive reading, incrementing and writing the counter of the key
KVCount(r) ==
  /\ strategy = "KVRateLimiter"
  /\ pc[r] = "decide"
  /\ LET sk == StorageKey(limiter[r], key[r])
         e == Incremented(limiter[r], sk, now)
         o == Decision(limiter[r], e, now)
     IN /\ store' = Put(store, sk, e)
        /\ outcome' = [outcome EXCEPT ![r] = o]
        /\ pc' = [pc EXCEPT ![r] = KVAfterDecision(o)]
        /\ hist' = Put(hist, sk,
                       Append(IF sk \in DOMAIN hist THEN hist[sk] ELSE <<>>,
                              [at |-> now, passed |-> FALSE]))
  /\ log' = [log EXCEPT ![r] = Append(@, "decide")]
  /\ UNCHANGED <<ctorVars, ctx, key, bind, pending, hargs, herr, result, limiter,
                 now, served, got>>

\* try { await next() }: the request reaches downstream processing
KVNextCounted(r) ==
  /\ strategy = "KVRateLimiter"
  /\ pc[r] = "next"
  /\ log' = [log EXCEPT ![r] = Append(@, "next")]
  /\ pc' = [pc EXCEPT ![r] = KVAwaitNext]
  /\ LET sk == StorageKey(limiter[r], key[r])
     IN hist' = [hist EXCEPT ![sk] = [@ EXCEPT ![Len(@)].passed = TRUE]]
  /\ UNCHANGED <<ctorVars, ctx, key, bind, outcome, pending, hargs, herr, result,
                 limiter, now, store, served, got>>

\* time passes
Tick ==
  /\ now + TickMs <= StartMs + MaxTicks * TickMs
  /\ now' = now + TickMs
  /\ UNCHANGED <<ctorVars, reqVars, store, hist, served, got>>

\* a request enters while others may be in flight
KVEnterRace(r) ==
  /\ strategy = "KVRateLimiter"
  /\ served < MaxRaceRequests
  /\ Activate(r)
  /\ served' = served + 1
  /\ got' = [got EXCEPT ![r] = NoRead]
  /\ UNCHANGED <<now, store, hist>>

\* await ratelimiter(key), first half: the primitive reads the counter of the
\* key and suspends
KVRead(r) ==
  /\ strategy = "KVRateLimiter"
  /\ pc[r] = "decide"
  /\ LET sk == StorageKey(limiter[r], key[r])
     IN got' = [got EXCEPT ![r] =
                  [found |-> Live(sk, now),
                   value |-> IF Live(sk, now) THEN store[sk].value ELSE 0,
                   expires |-> IF Live(sk, now) THEN store[sk].expires ELSE 0,
                   raced |-> \E q \in Requests \ {r} :
                               /\ pc[q] = "put"
                               /\ StorageKey(limiter[q], key[q]) = sk,
                   idx |-> 0]]
  /\ pc' = [pc EXCEPT ![r] = "put"]
  /\ UNCHANGED <<ctorVars, ctx, key, bind, outcome, pending, log, hargs, herr, result,
                 limiter, now, store, hist, served>>

\* await ratelimiter(key), second half: the primitive writes the counter it
\* read plus one and resolves to the decision
KVWrite(r) ==
  /\ strategy = "KVRateLimiter"
  /\ pc[r] = "put"
  /\ LET sk == StorageKey(limiter[r], key[r])
         e == IF got[r].found
              THEN [value |-> got[r].value + 1, expires |-> got[r].expires]
              ELSE [value |-> 1, expires |-> now + 1000 * (limiter[r].period.tenths \div 10)]
         o == Decision(limiter[r], e, now)
         h == IF sk \in DOMAIN hist THEN hist[sk] ELSE <<>>
     IN /\ store' = Put(store, sk, e)
        /\ outcome' = [outcome EXCEPT ![r] = o]
        /\ pc' = [pc EXCEPT ![r] = KVAfterDecision(o)]
        /\ hist' = Put(hist, sk,
                       Append(h, [at |-> now, passed |-> FALSE, raced |-> got[r].raced]))
        /\ got' = [got EXCEPT ![r].idx = Len(h) + 1]
  /\ log' = [log EXCEPT ![r] = Append(@, "decide")]
  /\ UNCHANGED <<ctorVars, ctx, key, bind, pending, hargs, herr, result, limiter,
                 now, served>>

\* try { await next() }: the request reaches downstream processing
KVNextRace(r) ==
  /\ strategy = "KVRateLimiter"
  /\ pc[r] = "next"
  /\ log' = [log EXCEPT ![r] = Append(@, "next")]
  /\ pc' = [pc EXCEPT ![r] = KVAwaitNext]
  /\ LET sk == StorageKey(limiter[r], key[r])
     IN hist' = [hist EXCEPT ![sk] = [@ EXCEPT ![got[r].idx].passed = TRUE]]
  /\ UNCHANGED <<ctorVars, ctx, key, bind, outcome, pending, hargs, herr, result,
                 limiter, now, store, served, got>>

kvRateLimiterRace(r) ==
  \/ KVEnterRace(r)
  \/ KVKeyGenerator(r)
  \/ KVSkip(r)
  \/ KVSkipSettles(r)
  \/ KVGetBinding(r)
  \/ KVRead(r)
  \/ KVWrite(r)
  \/ KVErrorHandler(r)
  \/ KVNextRace(r)
  \/ KVNextSettles(r)
  \/ KVSuccessHandler(r)

kvRateLimiterCounted(r) ==
  \/ KVEnterCounted(r)
  \/ KVKeyGenerator(r)
  \/ KVSkip(r)
  \/ KVSkipSettles(r)
  \/ KVGetBinding(r)
  \/ KVCount(r)
  \/ KVErrorHandler(r)
  \/ KVNextCounted(r)
  \/ KVNextSettles(r)
  \/ KVSuccessHandler(r)

(***************************************************************************)
(* Options the application passes, and the specifications.                 *)
(***************************************************************************)
Strategies == {"RateLimiter", "KVRateLimiter"}

Opt(b, p, l, pe, i, kg, sh, eh) ==
  [binding |-> b, prefix |-> p, limit |-> l, period |-> pe, interval |-> i,
   keyGenerator |-> kg, successHandler |-> sh, errorHandler |-> eh]

\* bindings the request specification is run with
FlowBindings ==
  {Null, Str(EmptyName), Str(KVName), Fn("makeStore"), Fn("makeNull"),
   Fn("makePartial"), Fn("makeAsync"), Fn("fromEnv")}

FlowHandlers == {Undef, Fn("custom")}

FlowOptions(s) ==
  IF s = "RateLimiter"
  THEN {Opt(b, Undef, Undef, Undef, Undef, Fn("keyGenerator"), sh, eh) :
          b \in FlowBindings, sh \in FlowHandlers, eh \in FlowHandlers}
  ELSE {Opt(b, Undef, JsInt(l), JsInt(60), Undef, Fn("keyGenerator"), sh, eh) :
          b \in FlowBindings, l \in {0, 1, 2}, sh \in FlowHandlers, eh \in FlowHandlers}

InitRequestsOf(R) ==
  /\ pc = [r \in R |-> "idle"]
  /\ ctx = [r \in R |-> NoContext]
  /\ key = [r \in R |-> Undef]
  /\ bind = [r \in R |-> Undef]
  /\ outcome = [r \in R |-> NoOutcome]
  /\ pending = [r \in R |-> NoError]
  /\ log = [r \in R |-> <<>>]
  /\ hargs = [r \in R |-> <<>>]
  /\ herr = [r \in R |-> NoError]
  /\ result = [r \in R |-> NoResult]
  /\ limiter = [r \in R |-> NoLimiter]
  /\ now = StartMs
  /\ store = <<>>
  /\ hist = <<>>
  /\ served = 0
  /\ got = [r \in R |-> NoRead]

InitRequests == InitRequestsOf(OneRequest)

Init ==
  /\ strategy \in Strategies
  /\ options \in FlowOptions(strategy)
  /\ ctor = "idle"
  /\ ctorError = NoError
  /\ config = NoConfig
  /\ InitRequests

Next ==
  \/ ConstructRateLimiter
  \/ ConstructKVRateLimiter
  \/ \E r \in Requests : rateLimiter(r)
  \/ \E r \in Requests : kvRateLimiter(r)

Spec == Init /\ [][Next]_vars

(***************************************************************************)
(* The constructors alone, over a wide set of options.                     *)
(***************************************************************************)
CtorBindings == {Undef, JsInt(123), Str(EmptyName), Str(KVName), Fn("makeStore")}
CtorPrefixes == {Undef, Str(<<>>), Str(<<"p", ":">>)}
CtorLimits == {NaN, JsInt(0), Num(9), JsInt(1), JsInt(2)}
CtorPeriods == {NaN, JsInt(59), Num(599), JsInt(60), Str(<<"6", "1">>)}
CtorIntervals ==
  {Undef, NaN, JsInt(-1), Num(-5), JsInt(0), JsInt(60), Num(605), JsInt(61)}
CtorKeyGenerators == {Fn("keyGenerator"), Str(<<"i", "p">>)}
CtorSuccessHandlers == {Undef, Fn("custom"), JsInt(123)}
CtorErrorHandlers == {Undef, Fn("custom"), Obj({})}

CtorOptions(s) ==
  IF s = "RateLimiter"
  THEN {Opt(b, Undef, Undef, Undef, Undef, kg, sh, eh) :
          b \in CtorBindings, kg \in CtorKeyGenerators \cup {Undef},
          sh \in CtorSuccessHandlers, eh \in CtorErrorHandlers}
  ELSE {Opt(b, p, l, pe, i, kg, sh, eh) :
          b \in CtorBindings, p \in CtorPrefixes, l \in CtorLimits,
          pe \in CtorPeriods, i \in CtorIntervals, kg \in CtorKeyGenerators,
          sh \in CtorSuccessHandlers, eh \in CtorErrorHandlers}
        \cup {Opt(Undef, Undef, Undef, Undef, Undef, Undef, Undef, Undef)}

InitCtor ==
  /\ strategy \in Strategies
  /\ options \in CtorOptions(strategy)
  /\ ctor = "idle"
  /\ ctorError = NoError
  /\ config = NoConfig
  /\ InitRequests

NextCtor ==
  \/ ConstructRateLimiter
  \/ ConstructKVRateLimiter

SpecCtor == InitCtor /\ [][NextCtor]_vars

\* the counting specification: window-counter configurations with a usable
\* store, and requests served one after the other while time passes
CounterLimits == {1, 2}

CounterOptions ==
  {Opt(Str(KVName), Undef, JsInt(l), JsInt(60), Undef, Fn("keyGenerator"), Undef, Undef) :
     l \in CounterLimits}

InitCounter ==
  /\ strategy = "KVRateLimiter"
  /\ options \in CounterOptions
  /\ ctor = "idle"
  /\ ctorError = NoError
  /\ config = NoConfig
  /\ InitRequests

NextCounter ==
  \/ ConstructKVRateLimiter
  \/ \E r \in Requests : kvRateLimiterCounted(r)
  \/ Tick

SpecCounter == InitCounter /\ [][NextCounter]_vars

\* the progress specification: the request flow of both strategies, where the
\* synchronous statements that call next() run once they are reached.  The
\* JavaScript runtime runs a middleware to its next await without preemption;
\* everything else is a call to code outside the middleware (keyGenerator,
\* the binding factory, the decision, next, the handlers) that may never
\* return, so no fairness is assumed of it.
OwnStep(r) == RLSkip(r) \/ RLNext(r) \/ KVSkip(r) \/ KVNext(r)

SpecProgress == Init /\ [][Next]_vars /\ \A r \in OneRequest : WF_vars(OwnStep(r))

\* the validation specification: KVRateLimiter constructed from options at and
\* around the limits of validity, with prefix and interval given or omitted,
\* then serving requests
ValidatedOptions ==
  {Opt(b, p, l, pe, i, Fn("keyGenerator"), Undef, Undef) :
     b \in {Str(KVName), Fn("makeStore")},
     p \in {Undef, Str(<<"p">>), Str(<<>>)},
     l \in {JsInt(0), JsInt(1), Num(25)},
     pe \in {JsInt(59), JsInt(60), Num(605)},
     i \in {Undef, JsInt(0), JsInt(60), Num(-5), JsInt(61)}}

InitValidated ==
  /\ strategy = "KVRateLimiter"
  /\ options \in ValidatedOptions
  /\ ctor = "idle"
  /\ ctorError = NoError
  /\ config = NoConfig
  /\ InitRequests

NextValidated ==
  \/ ConstructKVRateLimiter
  \/ \E r \in Requests : kvRateLimiter(r)

SpecValidated == InitValidated /\ [][NextValidated]_vars

\* the racing specification: two invocations in flight against a counting
\* primitive that reads the counter, suspends, and writes it
InitRace ==
  /\ strategy = "KVRateLimiter"
  /\ options \in CounterOptions
  /\ ctor = "idle"
  /\ ctorError = NoError
  /\ config = NoConfig
  /\ InitRequestsOf(TwoRequests)

NextRace ==
  \/ ConstructKVRateLimiter
  \/ \E r \in Requests : kvRateLimiterRace(r)

SpecRace == InitRace /\ [][NextRace]_vars

\* the concurrent specification: two invocations in flight on one middleware
\* instance, switching at every await
ConcurrentOptions(s) ==
  IF s = "RateLimiter"
  THEN {Opt(Str(KVName), Undef, Undef, Undef, Undef, Fn("keyGenerator"), sh, Undef) :
          sh \in FlowHandlers}
  ELSE {Opt(Str(KVName), Undef, JsInt(2), JsInt(60), Undef, Fn("keyGenerator"), sh, Undef) :
          sh \in FlowHandlers}

InitConcurrent ==
  /\ strategy \in Strategies
  /\ options \in ConcurrentOptions(strategy)
  /\ ctor = "idle"
  /\ ctorError = NoError
  /\ config = NoConfig
  /\ InitRequestsOf(TwoRequests)

SpecConcurrent == InitConcurrent /\ [][Next]_vars

(***************************************************************************)
(* Properties of one request.                                              *)
(***************************************************************************)
\* the number of times the middleware made call c for request r
Count(r, c) == Cardinality({i \in 1..Len(log[r]) : log[r][i] = c})

\* the position of the first call c in the log of r (0: never)
First(r, c) ==
  IF Count(r, c) = 0 THEN 0
  ELSE CHOOSE i \in 1..Len(log[r]) :
         log[r][i] = c /\ \A j \in 1..(i - 1) : log[r][j] # c

Done(r) == pc[r] = "done"
Rejected(r) == outcome[r].made /\ ~outcome[r].success
Admitted(r) == outcome[r].made /\ outcome[r].success
KeyDerived(r) == Count(r, "keyGenerator") > 0
BindingResolved(r) == Count(r, "getBinding") > 0

\* C1: in both strategies, once the decision of a request has success = false,
\* the error handler is invoked at most once, and exactly once by the time the
\* invocation ends, while next and the success handler are never invoked.
C1_RejectionRunsErrorHandlerOnly ==
  \A r \in Requests :
    Rejected(r) =>
      /\ Count(r, "errorHandler") <= 1
      /\ (Done(r) => Count(r, "errorHandler") = 1)
      /\ Count(r, "next") = 0
      /\ Count(r, "successHandler") = 0

C1_Witness ==
  \E r \in Requests :
    Done(r) /\ Rejected(r) /\ Count(r, "errorHandler") = 1 /\ strategy = "RateLimiter"

\* C2: in both strategies, when the key generator returned a falsy value, next
\* is invoked at most once, and exactly once by the time the invocation ends,
\* and there is no binding resolution, no decision and no handler call.
C2_FalsyKeySkips ==
  \A r \in Requests :
    (KeyDerived(r) /\ key[r] \in {Str(<<>>), Null, Undef, False}) =>
      /\ Count(r, "next") <= 1
      /\ (Done(r) => Count(r, "next") = 1)
      /\ Count(r, "getBinding") = 0
      /\ bind[r] = Undef
      /\ Count(r, "decide") = 0
      /\ Count(r, "successHandler") = 0
      /\ Count(r, "errorHandler") = 0

C2_Witness ==
  \E r \in Requests :
    Done(r) /\ KeyDerived(r) /\ key[r] = Str(<<>>) /\ Count(r, "next") = 1
      /\ strategy = "KVRateLimiter"

\* C3: in both strategies, once the decision of a request has success = true,
\* the success handler is invoked at most once, only after next has settled
\* (returned or raised), and exactly once by the time the invocation ends,
\* whether next returned or raised.
C3_SuccessHandlerAfterNext ==
  \A r \in Requests :
    Admitted(r) =>
      /\ Count(r, "successHandler") <= 1
      /\ (Count(r, "successHandler") = 1 =>
            /\ Count(r, "nextSettled") = 1
            /\ First(r, "nextSettled") < First(r, "successHandler"))
      /\ (Done(r) => Count(r, "successHandler") = 1)

C3_Witness ==
  \E r \in Requests :
    Done(r) /\ Admitted(r) /\ pending[r] = Boom /\ Count(r, "successHandler") = 1
      /\ strategy = "KVRateLimiter"

\* C4: whenever next raised error E after a successful decision, the
\* middleware invocation ends by raising exactly E, whatever the success
\* handler did.
C4_DownstreamErrorUnchanged ==
  \A r \in Requests :
    (Done(r) /\ Admitted(r) /\ pending[r] # NoError) => result[r] = Raised(pending[r])

(***************************************************************************)
(* The window counter.                                                     *)
(***************************************************************************)
\* the configured limit and period as the application wrote them
GivenLimit == options.limit.tenths \div 10
GivenPeriodMs == 1000 * (options.period.tenths \div 10)

\* the composite key of request r
CompositeKey(r) == config.prefix.s \o key[r].s

RECURSIVE WindowStart(_, _)
\* the start of the window that holds the i-th decision of h: the first
\* decision opens a window, and so does every decision taken once the window
\* before it has lasted the period
WindowStart(h, i) ==
  IF i = 1 THEN h[1].at
  ELSE LET w == WindowStart(h, i - 1)
       IN IF h[i].at < w + GivenPeriodMs THEN w ELSE h[i].at

\* the decisions of h that share the window of the i-th
SameWindow(h, i) == {j \in 1..Len(h) : WindowStart(h, j) = WindowStart(h, i)}

\* n: the rank of the i-th decision of h within its window
Rank(h, i) == Cardinality({j \in SameWindow(h, i) : j <= i})

\* C5: in the window-counter strategy, the n-th request of a composite key
\* within one window of period seconds succeeds with remaining = limit - n
\* when n <= limit and fails with remaining = 0 when n > limit; at most limit
\* requests of a window reach next(); the first request after the window has
\* expired counts as 1 again
C5_WindowCounter ==
  /\ \A r \in Requests :
       outcome[r].made =>
         LET h == hist[CompositeKey(r)]
             n == Rank(h, Len(h))
         IN /\ n <= GivenLimit =>
                 outcome[r].success /\ outcome[r].remaining = JsInt(GivenLimit - n)
            /\ n > GivenLimit =>
                 ~outcome[r].success /\ outcome[r].remaining = JsInt(0)
  /\ \A sk \in DOMAIN hist : \A i \in 1..Len(hist[sk]) :
       /\ Cardinality({j \in SameWindow(hist[sk], i) : hist[sk][j].passed}) <= GivenLimit
       /\ hist[sk][i].passed => Rank(hist[sk], i) <= GivenLimit

\* a key whose second request was refused within the window of the first and
\* whose third request, after the window expired, was admitted as the first
\* of a new window
C5_Witness ==
  \E r \in Requests :
    /\ pc[r] = "done" /\ outcome[r].made /\ GivenLimit = 1
    /\ LET h == hist[CompositeKey(r)]
       IN /\ Len(h) = 3
          /\ Rank(h, 2) = 2 /\ ~h[2].passed
          /\ Rank(h, 3) = 1 /\ h[3].passed
    /\ outcome[r].success /\ outcome[r].remaining = JsInt(0)
    /\ result[r] = Returned


\* the resolved binding is nullish or lacks a method the strategy needs
Unusable(b) ==
  \/ b \in {Null, Undef}
  \/ strategy = "RateLimiter" /\ ~HasMethod(b, "limit")
  \/ strategy = "KVRateLimiter" /\ (~HasMethod(b, "get") \/ ~HasMethod(b, "put"))

\* C6: in both strategies, when the binding resolved for a request with a
\* truthy key is nullish or lacks limit() (RateLimiter) or get() or put()
\* (KVRateLimiter), the invocation ends at once by raising a TypeError that
\* is no 429: no decision, no next, no handler.
C6_UnusableBindingRaises ==
  \A r \in Requests :
    (BindingResolved(r) /\ Unusable(bind[r])) =>
      /\ Truthy(key[r])
      /\ Done(r)
      /\ result[r].kind = "raised"
      /\ result[r].error.name = "TypeError"
      /\ result[r].error.status # 429
      /\ result[r].error.message = (IF strategy = "RateLimiter" THEN MsgRLUsage ELSE MsgKVUsage)
      /\ Count(r, "decide") = 0
      /\ Count(r, "next") = 0
      /\ Count(r, "successHandler") = 0
      /\ Count(r, "errorHandler") = 0
      /\ ctx[r].thrown = NoError

C6_Witness ==
  \E r \in Requests :
    BindingResolved(r) /\ bind[r] = GetOnly /\ strategy = "KVRateLimiter" /\ Done(r)

\* C7, as claimed: every rejected request completes normally (the invocation
\* does not raise to its caller) without invoking next.
C7_RejectionCompletesNormally ==
  \A r \in Requests :
    (Done(r) /\ Rejected(r)) => (result[r] = Returned /\ Count(r, "next") = 0)

DefaultErrorHandler ==
  config.errorHandler \in {Fn("RL.defaultErrorHandler"), Fn("KV.defaultErrorHandler")}

\* C7, amended: a rejected request never invokes next; its invocation
\* completes normally exactly when the error handler returned, and raises the
\* handler's own error otherwise; the default error handler calls ctx.throw
\* with status 429 and raises exactly when the host's ctx.throw raises.
C7_RejectionEndsAsHandlerDoes ==
  \A r \in Requests :
    (Done(r) /\ Rejected(r)) =>
      /\ Count(r, "next") = 0
      /\ result[r] = (IF herr[r] = NoError THEN Returned ELSE Raised(herr[r]))
      /\ (DefaultErrorHandler =>
            /\ ctx[r].thrown.status = 429
            /\ herr[r] = (IF ctx[r].throws THEN ctx[r].thrown ELSE NoError))

C7_Witness ==
  \E r \in Requests :
    /\ Done(r) /\ Rejected(r) /\ DefaultErrorHandler
    /\ result[r].kind = "raised" /\ result[r].error.status = 429

(***************************************************************************)
(* Properties of the constructors.                                         *)
(***************************************************************************)
Constructed == ctor # "idle"

\* v is a number other than NaN
IsNumber(v) == v.t = "number" /\ ~v.nan

\* the number v is below k; the number v is above the number w
RawLT(v, k) == IsNumber(v) /\ v.tenths < 10 * k
RawGT(v, w) == IsNumber(v) /\ IsNumber(w) /\ v.tenths > w.tenths

\* the integer part of the number v (rounded toward zero)
Trunc(v) == IF v.tenths >= 0 THEN v.tenths \div 10 ELSE -((-v.tenths) \div 10)

FieldMessages ==
  {MsgBinding, MsgPrefix, MsgLimit, MsgPeriod, MsgInterval, MsgIntervalPeriod,
   MsgKeyGenerator, MsgSuccessHandler, MsgErrorHandler}

Callable(v) == v.t = "function"
BindingFieldValid(o) == o.binding.t = "string" \/ Callable(o.binding)
PrefixFieldValid(o) == o.prefix = Undef \/ (o.prefix.t = "string" /\ o.prefix.s # <<>>)
FunctionFieldsValid(o) ==
  /\ Callable(o.keyGenerator)
  /\ o.successHandler = Undef \/ Callable(o.successHandler)
  /\ o.errorHandler = Undef \/ Callable(o.errorHandler)
OtherFieldsValid(o) == BindingFieldValid(o) /\ PrefixFieldValid(o) /\ FunctionFieldsValid(o)

\* the interval of the options, 0 when it is omitted
IntervalOf(o) == IF o.interval = Undef THEN JsInt(0) ELSE o.interval

AtBoundary(o) ==
  /\ o.limit = JsInt(1) /\ o.period = JsInt(60) /\ o.interval = JsInt(60)
  /\ OtherFieldsValid(o)

C9_EmptyBindingFailsConstruction ==
  (Constructed /\ ~(Callable(options.binding)
                     \/ (options.binding.t = "string" /\ options.binding.s # <<>>)))
    => (ctor = "failed" /\ \A r \in Requests : log[r] = <<>>)

\* C9, amended: a binding that is neither a string nor a callable, and a
\* limit below 1, make the constructor fail, and after a failed construction
\* no request is ever handled; the empty string is a string: construction
\* succeeds when the other fields are valid, and a request with a truthy key
\* then resolves ctx.env[''], raising the binding-usage TypeError when that
\* is not a usable binding.
C9_InvalidBindingFailsConstruction ==
  Constructed =>
    /\ ~BindingFieldValid(options) => (ctor = "failed" /\ ctorError = TypeError(MsgBinding))
    /\ (strategy = "KVRateLimiter" /\ RawLT(options.limit, 1)) => ctor = "failed"
    /\ ctor = "failed" => \A r \in Requests : pc[r] = "idle" /\ log[r] = <<>>
    /\ options.binding = Str(EmptyName) =>
         /\ (OtherFieldsValid(options)
               /\ (strategy = "KVRateLimiter" => ~RawLT(options.limit, 1))) => ctor = "ok"
         /\ \A r \in Requests :
              BindingResolved(r) =>
                /\ bind[r] = EnvLookup(ctx[r], EmptyName)
                /\ Unusable(bind[r]) => result[r].error.name = "TypeError"

C9_Witness ==
  \E r \in Requests :
    /\ options.binding = Str(EmptyName) /\ Done(r) /\ BindingResolved(r)
    /\ bind[r] = Undef /\ result[r] = Raised(TypeError(MsgRLUsage))

\* the constraints in the order claimed, each with whether the closure c
\* violates it and the message of its error
ClaimedOrder(c) ==
  <<[bad |-> ~(c.binding.t \in {"string", "function"}), msg |-> MsgBinding]>>
  \o (IF strategy = "KVRateLimiter"
      THEN <<[bad |-> ~(c.prefix.t = "string" /\ c.prefix.s # <<>>), msg |-> MsgPrefix],
             [bad |-> ~(IsNumber(c.limit) /\ c.limit.tenths >= 10), msg |-> MsgLimit],
             [bad |-> ~(IsNumber(c.period) /\ c.period.tenths >= 600), msg |-> MsgPeriod],
             [bad |-> ~(IsNumber(c.interval) /\ c.interval.tenths >= 0), msg |-> MsgInterval],
             [bad |-> ~(IsNumber(c.interval) /\ IsNumber(c.period)
                          /\ c.interval.tenths <= c.period.tenths),
              msg |-> MsgIntervalPeriod]>>
      ELSE <<>>)
  \o <<[bad |-> ~Callable(c.keyGenerator), msg |-> MsgKeyGenerator],
       [bad |-> ~Callable(c.successHandler), msg |-> MsgSuccessHandler],
       [bad |-> ~Callable(c.errorHandler), msg |-> MsgErrorHandler]>>

Violated(c) == {i \in 1..Len(ClaimedOrder(c)) : ClaimedOrder(c)[i].bad}

\* the closure the constructor validates: the options after defaults and
\* integer coercion
ClosureOf(o) == IF strategy = "RateLimiter" THEN RLClosure(o) ELSE KVClosure(o)

\* C10: validation stops at the first violation in the order binding, prefix
\* (KVRateLimiter), limit, period, interval, interval <= period (KVRateLimiter),
\* keyGenerator, successHandler, errorHandler: the error raised is the one of
\* the earliest violated constraint, and construction succeeds when none is.
C10_FirstViolationWins ==
  Constructed =>
    LET c == ClosureOf(options)
        v == Violated(c)
    IN IF v = {} THEN ctor = "ok" /\ ctorError = NoError
       ELSE LET first == CHOOSE i \in v : \A j \in v : i <= j
            IN ctor = "failed" /\ ctorError = TypeError(ClaimedOrder(c)[first].msg)

C10_Witness ==
  /\ strategy = "KVRateLimiter" /\ ctor = "failed"
  /\ Cardinality(Violated(ClosureOf(options))) >= 3
  /\ ctorError = TypeError(MsgPeriod)

(***************************************************************************)
(* The handlers and their arguments.                                       *)
(***************************************************************************)
\* some handler was called for request r
HandlerCalled(r) == Count(r, "errorHandler") + Count(r, "successHandler") > 0

\* C11: in the window-counter strategy, the handler that runs for a request
\* is called with exactly (ctx, limit, remaining, reset): the context of that
\* request, the validated configured limit, and remaining and reset as the
\* decision of that request gave them.
C11_HandlerArguments ==
  \A r \in Requests :
    (strategy = "KVRateLimiter" /\ HandlerCalled(r)) =>
      /\ outcome[r].made
      /\ hargs[r] = <<r, JsInt(GivenLimit), outcome[r].remaining, outcome[r].reset>>

C11_Witness ==
  \E r \in Requests :
    /\ strategy = "KVRateLimiter" /\ Done(r) /\ pending[r] = Boom
    /\ Count(r, "successHandler") = 1
    /\ hargs[r] = <<r, JsInt(2), JsInt(1), JsInt(5)>>

\* the names of the headers of h, and the number a header of h spells
HeaderNames(h) == {p[1] : p \in h}
HeaderNumber(h, name) == DigitsValue((CHOOSE p \in h : p[1] = name)[2], 0)

\* the three headers both default handlers give: the limit, the remaining
\* count, and a reset that is at least the epoch second of time t plus reset
LimitHeaders == {"X-RateLimit-Limit", "X-RateLimit-Remaining", "X-RateLimit-Reset"}

LimitHeadersOK(h, o, t) ==
  /\ HeaderNumber(h, "X-RateLimit-Limit") = GivenLimit
  /\ 10 * HeaderNumber(h, "X-RateLimit-Remaining") = o.remaining.tenths
  /\ 10 * HeaderNumber(h, "X-RateLimit-Reset") >= 10 * (t \div 1000) + o.reset.tenths

\* C12: with the default handlers of the window-counter strategy, the step
\* that runs the success handler sets exactly the three X-RateLimit headers,
\* and the step that runs the error handler ends the request through
\* ctx.throw(429, 'Too Many Requests') with those three headers and
\* Retry-After = String(reset); X-RateLimit-Reset is an epoch second that is
\* at least the current epoch second plus reset.
C12_DefaultHandlerHeaders ==
  [][\A r \in Requests :
       /\ (strategy = "KVRateLimiter" /\ pc[r] = "finally" /\ pc'[r] = "done") =>
            /\ HeaderNames(ctx'[r].headers) = LimitHeaders
            /\ Cardinality(ctx'[r].headers) = 3
            /\ LimitHeadersOK(ctx'[r].headers, outcome[r], now)
            /\ ctx'[r].thrown = NoError
       /\ (strategy = "KVRateLimiter" /\ pc[r] = "errorHandler" /\ pc'[r] = "done") =>
            /\ ctx'[r].thrown.status = 429
            /\ ctx'[r].thrown.message = "Too Many Requests"
            /\ HeaderNames(ctx'[r].thrown.headers) = LimitHeaders \cup {"Retry-After"}
            /\ Cardinality(ctx'[r].thrown.headers) = 4
            /\ LimitHeadersOK(ctx'[r].thrown.headers, outcome[r], now)
            /\ 10 * HeaderNumber(ctx'[r].thrown.headers, "Retry-After") = outcome[r].reset.tenths
            /\ (ctx[r].throws => result'[r] = Raised(ctx'[r].thrown))
    ]_vars

\* a request refused half a minute into the window: 429 with Retry-After 30
C12_Witness ==
  \E r \in Requests :
    /\ strategy = "KVRateLimiter" /\ Done(r) /\ Rejected(r)
    /\ now > StartMs
    /\ ctx[r].thrown.status = 429
    /\ <<"Retry-After", <<"3", "0">>>> \in ctx[r].thrown.headers
    /\ <<"X-RateLimit-Remaining", <<"0">>>> \in ctx[r].thrown.headers

\* C13: in the service-backed strategy the handlers are called with the
\* context only; the default error handler ends the request through
\* ctx.throw(429, 'Too Many Requests') with no headers, and the default
\* success handler sets no header and raises nothing.
C13_ServiceHandlers ==
  \A r \in Requests :
    (strategy = "RateLimiter" /\ HandlerCalled(r)) =>
      /\ hargs[r] = <<r>>
      /\ (Count(r, "errorHandler") = 1 /\ options.errorHandler = Undef) =>
            /\ ctx[r].thrown = HttpError(429, "Too Many Requests", {})
            /\ ctx[r].headers = {}
            /\ result[r] = (IF ctx[r].throws THEN Raised(ctx[r].thrown) ELSE Returned)
      /\ (Count(r, "successHandler") = 1 /\ options.successHandler = Undef) =>
            /\ ctx[r].headers = {}
            /\ ctx[r].thrown = NoError
            /\ herr[r] = NoError

C13_Witness ==
  \E r \in Requests :
    /\ strategy = "RateLimiter" /\ Done(r) /\ Rejected(r)
    /\ options.errorHandler = Undef /\ ctx[r].throws
    /\ result[r].kind = "raised" /\ result[r].error.status = 429
    /\ hargs[r] = <<r>>

(***************************************************************************)
(* Binding resolution and key derivation.                                  *)
(***************************************************************************)
\* what the configured binding stands for in the context of request r: the
\* entry of ctx.env under exactly the configured name, or what the factory
\* returns for that context
ExpectedBinding(r) ==
  IF config.binding.t = "string"
  THEN IF config.binding.s \in DOMAIN ctx[r].env
       THEN ctx[r].env[config.binding.s] ELSE Undef
  ELSE CallFactory(config.binding.f, ctx[r])

\* C14: the binding is resolved exactly once for each request with a truthy
\* key and never cached: a request holds no handle before it resolves one,
\* and the handle it resolves is the entry of its own ctx.env under the
\* configured name, or the result of the factory for its own ctx, verbatim;
\* the same context and configuration give the same handle.
C14_BindingResolvedPerRequest ==
  \A r \in Requests :
    /\ Count(r, "getBinding") <= 1
    /\ (Done(r) /\ KeyDerived(r) /\ Truthy(key[r])) => Count(r, "getBinding") = 1
    /\ ~BindingResolved(r) => bind[r] = Undef
    /\ BindingResolved(r) => bind[r] = ExpectedBinding(r)

\* a request whose factory read the partial binding of its own ctx.env
C14_Witness ==
  \E r \in Requests :
    /\ Done(r) /\ BindingResolved(r)
    /\ config.binding = Fn("fromEnv") /\ bind[r] = GetOnly

\* C15: the key generator is invoked exactly once per request that enters
\* the middleware, on every path, and before the binding resolution, the
\* decision, next and the handlers of that request.
C15_KeyGeneratorOnceAndFirst ==
  \A r \in Requests :
    /\ Count(r, "keyGenerator") <= 1
    /\ log[r] # <<>> => log[r][1] = "keyGenerator"
    /\ pc[r] \notin {"idle", "keyGenerator"} => Count(r, "keyGenerator") = 1

\* a request that ended on the binding error after its key was derived
C15_Witness ==
  \E r \in Requests :
    /\ Done(r) /\ result[r].kind = "raised" /\ result[r].error.name = "TypeError"
    /\ log[r] = <<"keyGenerator", "getBinding">>

\* C16: with several requests in flight on one middleware instance, the
\* configuration is never modified once constructed, and every handler is
\* invoked with the context and the decision of its own request.
C16_NoSharedState ==
  /\ [][ctor = "ok" => (config' = config /\ options' = options)]_vars
  /\ [](\A r \in Requests :
          HandlerCalled(r) =>
            /\ ctx[r].id = r
            /\ hargs[r][1] = r
            /\ strategy = "KVRateLimiter" =>
                 hargs[r] = <<r, JsInt(GivenLimit), outcome[r].remaining, outcome[r].reset>>)

\* two requests in flight with different decisions: one is downstream while
\* the handler of the other has run
C16_Witness ==
  \E r, q \in Requests :
    /\ r # q /\ strategy = "KVRateLimiter"
    /\ pc[r] = "nextAwait" /\ Admitted(r)
    /\ Done(q) /\ Rejected(q) /\ Count(q, "errorHandler") = 1
    /\ outcome[r].remaining # outcome[q].remaining

\* the usage error of the strategy
UsageError ==
  TypeError(IF strategy = "RateLimiter" THEN MsgRLUsage ELSE MsgKVUsage)

\* C17 as claimed: when the binding factory is asynchronous, the middleware
\* waits for it and uses the live handle for the capability check and the
\* decision.
C17_AsyncBindingAwaited ==
  \A r \in Requests :
    (config.binding = Fn("makeAsync") /\ BindingResolved(r)) =>
      /\ bind[r] = FullBinding
      /\ result[r] # Raised(UsageError)

\* C17 as amended: binding resolution is no suspension point; the promise an
\* asynchronous factory returns is used as it is, fails the capability check,
\* and the request ends on the usage error before any decision.
C17_AsyncBindingNotAwaited ==
  \A r \in Requests :
    (config.binding = Fn("makeAsync") /\ BindingResolved(r)) =>
      /\ bind[r] = Promise(FullBinding)
      /\ Done(r)
      /\ result[r] = Raised(UsageError)
      /\ Count(r, "decide") = 0
      /\ Count(r, "next") = 0
      /\ ~HandlerCalled(r)

C17_Witness ==
  \E r \in Requests :
    /\ config.binding = Fn("makeAsync") /\ strategy = "KVRateLimiter"
    /\ Done(r) /\ bind[r] = Promise(FullBinding) /\ result[r] = Raised(UsageError)

(***************************************************************************)
(* The decision and what follows it.                                       *)
(***************************************************************************)
\* call a comes before call b in the log of r, when both are there
Before(r, a, b) ==
  (Count(r, a) > 0 /\ Count(r, b) > 0) => First(r, a) < First(r, b)

\* C18: for a request with a truthy key and a usable binding the decision is
\* requested exactly once, after the binding resolution and before next and
\* the handlers; its outcome goes to exactly one handler call, the error
\* handler when success is false and the success handler, after next has
\* settled, when it is true; a request starts without an outcome.
C18_DecisionOnceOneHandler ==
  \A r \in Requests :
    /\ Count(r, "decide") <= 1
    /\ Count(r, "decide") = 1 => Count(r, "getBinding") = 1
    /\ (Done(r) /\ BindingResolved(r) /\ ~Unusable(bind[r])) => Count(r, "decide") = 1
    /\ Before(r, "getBinding", "decide")
    /\ (BindingResolved(r) /\ Truthy(key[r])) =>
          /\ Before(r, "decide", "next")
          /\ Before(r, "decide", "errorHandler")
          /\ Before(r, "decide", "successHandler")
    /\ Count(r, "errorHandler") + Count(r, "successHandler") <= 1
    /\ HandlerCalled(r) => outcome[r].made
    /\ (Done(r) /\ Rejected(r)) =>
          Count(r, "errorHandler") = 1 /\ Count(r, "successHandler") = 0
    /\ (Done(r) /\ Admitted(r)) =>
          /\ Count(r, "successHandler") = 1 /\ Count(r, "errorHandler") = 0
          /\ Before(r, "nextSettled", "successHandler")
    /\ pc[r] \in {"keyGenerator", "skip", "skipAwait", "getBinding", "decide"} =>
          outcome[r] = NoOutcome

C18_Witness ==
  \E r \in Requests :
    /\ strategy = "KVRateLimiter" /\ Done(r) /\ Admitted(r) /\ result[r] = Returned
    /\ log[r] = <<"keyGenerator", "getBinding", "decide", "next", "nextSettled",
                  "successHandler">>

\* C19: in both strategies next is invoked at most once per request, and it
\* is invoked exactly when the key is falsy, or the key is truthy, the
\* binding passes the capability check and the decision has success = true.
C19_NextIffSkippedOrAdmitted ==
  \A r \in Requests :
    LET due == \/ KeyDerived(r) /\ ~Truthy(key[r])
               \/ /\ KeyDerived(r) /\ Truthy(key[r])
                  /\ BindingResolved(r) /\ ~Unusable(bind[r])
                  /\ Admitted(r)
    IN /\ Count(r, "next") <= 1
       /\ Count(r, "next") = 1 => due
       /\ Done(r) => (Count(r, "next") = 1 <=> due)

C19_Witness ==
  \E r \in Requests :
    /\ strategy = "RateLimiter" /\ Done(r) /\ Count(r, "next") = 1
    /\ key[r] = Str(<<"i", "p">>) /\ Admitted(r) /\ ~Unusable(bind[r])

\* C20: when the decision call raises instead of returning an outcome, that
\* error reaches the caller of the middleware, and next, the error handler
\* and the success handler are not invoked.
C20_DecisionFailurePropagates ==
  \A r \in Requests :
    (Count(r, "decide") = 1 /\ ~outcome[r].made) =>
      /\ Done(r)
      /\ result[r] = Raised(DecisionFailure)
      /\ Count(r, "next") = 0
      /\ ~HandlerCalled(r)
      /\ ctx[r].thrown = NoError /\ ctx[r].headers = {}

C20_Witness ==
  \E r \in Requests :
    /\ strategy = "KVRateLimiter" /\ Done(r) /\ Count(r, "decide") = 1
    /\ result[r] = Raised(DecisionFailure)

\* ---------------------------------------------------------------------------
\* C21

\* the decisions of one storage key that reached downstream processing
PassedOf(sk) == {i \in 1..Len(hist[sk]) : hist[sk][i].passed}

\* the decisions of one storage key taken while another request was between
\* its read and its write of that key
RacedOf(sk) == {i \in 1..Len(hist[sk]) : hist[sk][i].raced}

\* C21: the middleware puts no lock around the counter: a request reads the
\* counter while another one is between its read and its write of the same
\* key, and the requests admitted in one window exceed limit only when such
\* an interleaving happened; without one, no more than limit are admitted
C21_ExcessOnlyWhenInterleaved ==
  \A sk \in DOMAIN hist :
    Cardinality(PassedOf(sk)) > GivenLimit => RacedOf(sk) # {}

\* C21 witness: both requests read the counter of one key before either wrote
\* it, and both reached downstream processing although limit is 1
C21_Witness ==
  /\ GivenLimit = 1
  /\ \E sk \in DOMAIN hist :
       /\ Cardinality(PassedOf(sk)) = 2
       /\ RacedOf(sk) # {}
  /\ \A r \in Requests : got[r].found = FALSE /\ Count(r, "next") = 1

\* ---------------------------------------------------------------------------
\* C22

\* the per-request inputs: how the decision call ended for a request that has
\* completed, and whether the handler that ran raised
DecisionOf(r) ==
  IF ~outcome[r].made THEN "raised"
  ELSE IF outcome[r].success THEN "admitted" ELSE "rejected"

HandlerRaised(r) == herr[r] # NoError

\* the events of one invocation and how it ends, as a function of the inputs
\* alone: key truthy or not, binding usable or not, the decision, how
\* downstream processing ended, whether the handler raised
UniformTrace(keyTruthy, usable, decision, down, handlerRaised) ==
  IF ~keyTruthy
  THEN [log |-> <<"keyGenerator", "next", "nextSettled">>,
        kind |-> IF down = NoError THEN "returned" ELSE "raised"]
  ELSE IF ~usable
  THEN [log |-> <<"keyGenerator", "getBinding">>, kind |-> "raised"]
  ELSE IF decision = "raised"
  THEN [log |-> <<"keyGenerator", "getBinding", "decide">>, kind |-> "raised"]
  ELSE IF decision = "rejected"
  THEN [log |-> <<"keyGenerator", "getBinding", "decide", "errorHandler">>,
        kind |-> IF handlerRaised THEN "raised" ELSE "returned"]
  ELSE [log |-> <<"keyGenerator", "getBinding", "decide", "next", "nextSettled",
                  "successHandler">>,
        kind |-> IF down # NoError \/ handlerRaised THEN "raised" ELSE "returned"]

ReachedDecision(r) == pc[r] = "decide" \/ Count(r, "decide") > 0

\* a numeric option as the constructor normalizes it
Normalized(v) == JsInt(Trunc(v))

\* C23: for every successfully constructed KVRateLimiter and every request
\* that reaches the decision, the counting primitive is built from the binding
\* resolved for that request as store and from the configuration normalized at
\* construction: prefix "ratelimit:" and interval 0 when they were omitted,
\* limit >= 1, period >= 60 and 0 <= interval <= period; and no request ends
\* with one of the configuration errors of the constructor
C23_ValidatedOnceAtConstruction ==
  \A r \in Requests :
    /\ ReachedDecision(r) =>
         /\ limiter[r].store = bind[r]
         /\ ~Unusable(bind[r])
         /\ limiter[r].prefix = IF options.prefix = Undef THEN DefaultPrefix
                                ELSE options.prefix
         /\ limiter[r].limit = Normalized(options.limit)
         /\ limiter[r].period = Normalized(options.period)
         /\ limiter[r].interval = IF options.interval = Undef THEN JsInt(0)
                                  ELSE Normalized(options.interval)
         /\ limiter[r].limit.tenths >= 10
         /\ limiter[r].period.tenths >= 600
         /\ limiter[r].interval.tenths >= 0
         /\ limiter[r].interval.tenths <= limiter[r].period.tenths
    /\ result[r].kind = "raised" => result[r].error.message \notin FieldMessages

\* C23 witness: a request of a limiter constructed without prefix and
\* interval and with a fractional limit has reached the decision with the
\* defaults and the truncated limit in the primitive
C23_Witness ==
  \E r \in Requests :
    /\ ReachedDecision(r)
    /\ options.prefix = Undef
    /\ options.interval = Undef
    /\ options.limit = Num(25)
    /\ limiter[r].prefix = DefaultPrefix
    /\ limiter[r].interval = JsInt(0)
    /\ limiter[r].limit = JsInt(2)
    /\ limiter[r].store = bind[r]

\* ---------------------------------------------------------------------------
\* C24

\* the request is at a call to code outside the middleware that has not
\* returned yet: key derivation, binding resolution, the decision call,
\* downstream processing, a handler
InOutsideCall(r) ==
  pc[r] \in {"keyGenerator", "getBinding", "decide", "errorHandler", "finally",
             "skipAwait", "nextAwait"}

\* the request waits for downstream processing
AwaitsDownstream(r) == pc[r] \in {"skipAwait", "nextAwait"}

\* C24: the middleware has no deadline of its own.  While downstream
\* processing has not returned after a successful decision the request has
\* not completed and the success handler has not been invoked, and the success
\* handler runs only after downstream processing settled; the only step that
\* ends the wait is the settling of downstream processing; and if every call
\* to code outside the middleware eventually returns or raises, every
\* request that started eventually completes
C24_NoDeadline ==
  /\ [](\A r \in OneRequest :
          /\ pc[r] = "nextAwait" =>
               /\ Admitted(r)
               /\ result[r] = NoResult
               /\ Count(r, "successHandler") = 0
          /\ Count(r, "successHandler") > 0 =>
               /\ Count(r, "nextSettled") = 1
               /\ Before(r, "nextSettled", "successHandler"))
  /\ [][\A r \in OneRequest :
          (AwaitsDownstream(r) /\ pc'[r] # pc[r]) =>
            log'[r] = Append(log[r], "nextSettled")]_vars
  /\ \A r \in OneRequest :
       ([]<>(~InOutsideCall(r))) => ((pc[r] = "keyGenerator") ~> Done(r))

\* C24 witness: an admitted request of the window-counter strategy waits for
\* downstream processing: next was called and has not settled, the request
\* has no result and no handler has run
C24_Witness ==
  \E r \in Requests :
    /\ strategy = "KVRateLimiter"
    /\ pc[r] = KVAwaitNext
    /\ Admitted(r)
    /\ log[r] = <<"keyGenerator", "getBinding", "decide", "next">>
    /\ result[r] = NoResult
    /\ ~HandlerCalled(r)

====
